---- MODULE Spec2Model ----
(***************************************************************************)
(* A model of the M2OrdRust discrete-event cluster simulator:              *)
(*   src/src/sim/job.rs      Job                                           *)
(*   src/src/sim/cluster.rs  Cluster                                       *)
(*   src/src/sim/algos.rs    the four Scheduler policies                   *)
(*   src/src/sim/mod.rs      Event, Engine::new, Engine::run               *)
(*                                                                         *)
(* Engine::run is modelled one loop step at a time: Drain is one           *)
(* iteration of the inner `while !queue.is_empty()` that admits a job,     *)
(* Advance is the pop that follows the drain phase, ExitLoop is the loop   *)
(* guard turning false and Report is the aggregation after the loop.       *)
(* The policies, the Cluster methods and the Job methods are operators;    *)
(* the specifications at the end of the module apply them either inside   *)
(* Engine::run or on their own to inputs drawn from bounded sets.          *)
(***************************************************************************)
EXTENDS Integers, Sequences, FiniteSets, TLC

(***************************************************************************)
(* Bounds of the model.                                                    *)
(***************************************************************************)
\* jobs in a trace handed to Engine::new (Spec)
NumJobs == 3
\* the cluster size handed to Engine::new
TotalNodes == 2
\* largest submit time of a trace
MaxSubmit == 1
\* largest actual run time of a job
MaxRun == 2
\* largest requested run time of a job
MaxReq == 1
\* longest pending queue handed to a policy on its own
MaxQueue == 3
\* latest clock at which a policy or a Job method is called on its own
MaxClock == 2
\* jobs in a trace of SpecFcfs
FcfsJobs == 4
\* SpecBackfill: jobs in a trace, cluster size, the submit time of the late
\* jobs and the largest run time
BackfillJobs == 4
BackfillNodes == 3
BackfillSubmit == 2
BackfillRun == 3

\* Stands for 2^64, the modulus of Clock = u64 (mod.rs:27).  TLC's integers
\* are 32 bits wide; every time of the model is far below either value, so a
\* wrapped difference compares against them exactly as it does in u64.
U64Modulus == 1073741824

VARIABLES
    scheduler,        \* Engine.scheduler: which policy the Box<dyn Scheduler> holds
    heap_cmp,         \* which comparison of (Clock, Event) the MinMaxHeap calls
    cluster,          \* Engine.cluster
    events,           \* Engine.events: the entries of the MinMaxHeap<(Clock, Event)>
    clock,            \* Engine.clock
    queue,            \* run's local `queue`: Vec<Job>, position 0 first
    wait_times,       \* run's local `wait_times`, in push order
    completion_times, \* run's local `completion_times`, in push order
    outcome,          \* what the latest Scheduler::schedule call returned
    reservation,      \* history: the earliest clock + window promised to a blocked head
    report,           \* the EngineReport returned by run
    pc,               \* where the program is: loop | report | finished | panicked, or in a single call: schedule | set_scheduled | finish_job | returned
    panic             \* the source line of the panic that aborted the run, or "none"

vars == <<scheduler, heap_cmp, cluster, events, clock, queue, wait_times,
          completion_times, outcome, reservation, report, pc, panic>>

Schedulers == {"FCFS", "FF", "SJF", "FCFSEasy"}

\* The MinMaxHeap crate bounds T: Ord; its sift code compares entries with
\* the operators < and >, that is with PartialOrd.  Event derives PartialOrd
\* (mod.rs:29) and implements Ord by hand (mod.rs:35-44), and the two
\* disagree, so the model keeps both outcomes.
HeapCmps == {"PartialOrd", "Ord"}

(***************************************************************************)
(* u64 arithmetic.  A subtraction that underflows panics in a build with   *)
(* overflow checks (the debug profile) and wraps in one without (the       *)
(* release profile); `checked` tells which build runs.                     *)
(***************************************************************************)
U64Sub(a, b, checked) ==
    IF a >= b THEN [panic |-> FALSE, val |-> a - b]
    ELSE IF checked THEN [panic |-> TRUE, val |-> 0]
    ELSE [panic |-> FALSE, val |-> U64Modulus - (b - a)]

(***************************************************************************)
(* job.rs                                                                   *)
(***************************************************************************)
Job_new(id, nodes, submit_time, run_time, requested_run_time) ==
    [id |-> id, nodes |-> nodes,
     submit_time |-> submit_time, schedule_time |-> 0,
     requested_run_time |-> requested_run_time, expected_end |-> 0,
     scheduled |-> FALSE,
     run_time |-> run_time]

Job_set_scheduled(job, at) ==
    [job EXCEPT !.scheduled = TRUE,
                !.schedule_time = at,
                !.expected_end = at + job.requested_run_time]

\* Seeded fault for C17: the operands of the subtraction swapped.
Job_wait_time_from_reversed(job, at, checked) == U64Sub(job.submit_time, at, checked)

Job_wait_time_from(job, at, checked) == U64Sub(at, job.submit_time, checked)

\* The fields of Job in declaration order, as the derived PartialOrd reads them.
Job_fields(job) ==
    <<job.id, job.nodes, job.submit_time, job.schedule_time,
      job.requested_run_time, job.expected_end,
      IF job.scheduled THEN 1 ELSE 0, job.run_time>>

\* #[derive(PartialOrd)] on Job: lexicographic over the fields.
Job_partial_lt(a, b) ==
    LET fa == Job_fields(a)
        fb == Job_fields(b)
    IN \E i \in 1..Len(fa) :
          /\ fa[i] < fb[i]
          /\ \A j \in 1..(i - 1) : fa[j] = fb[j]

\* impl Ord for Job: by id alone.
Job_cmp_lt(a, b) == a.id < b.id

(***************************************************************************)
(* cluster.rs                                                               *)
(***************************************************************************)
EmptyMap == [i \in {} |-> 0]

Cluster_new(nodes) ==
    [total_nodes |-> nodes, available_nodes |-> nodes,
     used_resources |-> 0, running_jobs |-> EmptyMap]

\* HashMap::insert: the entry of an id already present is overwritten.
Map_insert(m, k, v) == [i \in (DOMAIN m) \cup {k} |-> IF i = k THEN v ELSE m[i]]

Map_remove(m, k) == [i \in (DOMAIN m) \ {k} |-> m[i]]

\* Seeded fault for C12: an admitted job's nodes are not taken from the pool.
Cluster_schedule_job_unmetered(c, job, at) ==
    IF job.nodes > c.available_nodes
    THEN [ok |-> FALSE, cluster |-> c]
    ELSE [ok |-> TRUE,
          cluster |-> [c EXCEPT
              !.running_jobs = Map_insert(@, job.id, Job_set_scheduled(job, at))]]

Cluster_schedule_job(c, job, at) ==
    IF job.nodes > c.available_nodes
    THEN [ok |-> FALSE, cluster |-> c]
    ELSE [ok |-> TRUE,
          cluster |-> [c EXCEPT
              !.available_nodes = @ - job.nodes,
              !.running_jobs = Map_insert(@, job.id, Job_set_scheduled(job, at))]]

\* Seeded fault for C1: the finished job's nodes are not given back.
Cluster_finish_job_leak(c, job_id) ==
    IF job_id \in DOMAIN c.running_jobs
    THEN LET job == c.running_jobs[job_id]
         IN [c EXCEPT
              !.running_jobs = Map_remove(@, job_id),
              !.used_resources = @ + job.nodes * job.run_time]
    ELSE c

\* Seeded fault for C20: the requested run time is accounted, not the actual.
Cluster_finish_job_requested(c, job_id) ==
    IF job_id \in DOMAIN c.running_jobs
    THEN LET job == c.running_jobs[job_id]
         IN [c EXCEPT
              !.running_jobs = Map_remove(@, job_id),
              !.available_nodes = @ + job.nodes,
              !.used_resources = @ + job.nodes * job.requested_run_time]
    ELSE c

\* Seeded fault for C14: releasing an id that is not running empties the
\* running set.
Cluster_finish_job_drain(c, job_id) ==
    IF job_id \in DOMAIN c.running_jobs
    THEN LET job == c.running_jobs[job_id]
         IN [c EXCEPT
              !.running_jobs = Map_remove(@, job_id),
              !.available_nodes = @ + job.nodes,
              !.used_resources = @ + job.nodes * job.run_time]
    ELSE [c EXCEPT !.running_jobs = EmptyMap, !.available_nodes = c.total_nodes]

Cluster_finish_job(c, job_id) ==
    IF job_id \in DOMAIN c.running_jobs
    THEN LET job == c.running_jobs[job_id]
         IN [c EXCEPT
              !.running_jobs = Map_remove(@, job_id),
              !.available_nodes = @ + job.nodes,
              !.used_resources = @ + job.nodes * job.run_time]
    ELSE c

(***************************************************************************)
(* mod.rs: Event and the event heap                                         *)
(***************************************************************************)
\* The placeholder in the `job` field of an event that carries only an id.
NoJob == Job_new(0, 0, 0, 0, 0)

\* Event::NewJob(Job): the arrival of `job`.
Event_NewJob(job) == [kind |-> "NewJob", id |-> job.id, job |-> job]

\* Event::JobFinished(u32): the completion of the job `id`.
Event_JobFinished(id) == [kind |-> "JobFinished", id |-> id, job |-> NoJob]

\* impl Ord for Event (mod.rs:35-44): a < b, that is cmp(a, b) == Less.
Event_cmp_lt(a, b) ==
    CASE a.kind = "NewJob" /\ b.kind = "JobFinished" -> FALSE
      [] a.kind = "JobFinished" /\ b.kind = "NewJob" -> TRUE
      [] a.kind = "NewJob" /\ b.kind = "NewJob" -> Job_cmp_lt(a.job, b.job)
      [] OTHER -> a.id < b.id

\* #[derive(PartialOrd)] on Event (mod.rs:29-33): the variants in declaration
\* order, NewJob before JobFinished, then the payloads.
Event_partial_lt(a, b) ==
    CASE a.kind = "NewJob" /\ b.kind = "JobFinished" -> TRUE
      [] a.kind = "JobFinished" /\ b.kind = "NewJob" -> FALSE
      [] a.kind = "NewJob" /\ b.kind = "NewJob" -> Job_partial_lt(a.job, b.job)
      [] OTHER -> a.id < b.id

\* Seeded fault for C13: the heap's order upside down.
Entry_gt(cmp, x, y) ==
    \/ x[1] > y[1]
    \/ /\ x[1] = y[1]
       /\ IF cmp = "Ord" THEN Event_cmp_lt(y[2], x[2])
                         ELSE Event_partial_lt(y[2], x[2])

\* The order of the heap's entries (Clock, Event): the tuple order, first the
\* clock, then the event under the comparison the heap calls.
Entry_lt(cmp, x, y) ==
    \/ x[1] < y[1]
    \/ /\ x[1] = y[1]
       /\ IF cmp = "Ord" THEN Event_cmp_lt(x[2], y[2])
                         ELSE Event_partial_lt(x[2], y[2])

\* Seeded fault for C9: pop_max in place of pop_min.
Heap_max(cmp, heap) ==
    {e \in heap : \A f \in heap \ {e} : ~Entry_lt(cmp, e, f)}

\* MinMaxHeap::pop_min: the entries no other entry is below.
Heap_min(cmp, heap) ==
    {e \in heap : \A f \in heap \ {e} : ~Entry_lt(cmp, f, e)}

(***************************************************************************)
(* algos.rs: the policies.  A call returns Some(index), None, or panics;   *)
(* `window` is FCFSEasy's time_before_launch (0 where it is not computed)  *)
(* and `at` the source line of a panic.  Positions are 0-based as in the   *)
(* code; jobs[i + 1] is the job at position i.                             *)
(***************************************************************************)
Some(index, window) == [kind |-> "Some", index |-> index, window |-> window, at |-> "none"]

None(window) == [kind |-> "None", index |-> 0, window |-> window, at |-> "none"]

Panicked(at) == [kind |-> "Panic", index |-> 0, window |-> 0, at |-> at]

\* Seeded fault for C4: FCFS looks past a blocked head, as FF does.
FCFS_schedule_skipping(at, jobs, c) ==
    IF jobs = <<>> THEN Panicked("algos.rs:16")
    ELSE IF \E i \in 1..Len(jobs) : c.available_nodes >= jobs[i].nodes
         THEN Some((CHOOSE i \in 1..Len(jobs) :
                      /\ c.available_nodes >= jobs[i].nodes
                      /\ \A j \in 1..(i - 1) : c.available_nodes < jobs[j].nodes) - 1, 0)
         ELSE None(0)

FCFS_schedule(at, jobs, c) ==
    IF jobs = <<>> THEN Panicked("algos.rs:16")
    ELSE LET first == jobs[1]
         IN IF c.available_nodes >= first.nodes THEN Some(0, 0) ELSE None(0)

\* Seeded fault for C16: FF returns the first position without the fit check.
FF_scan_unchecked(jobs, c, idx) ==
    IF idx >= Len(jobs) THEN None(0) ELSE Some(idx, 0)

RECURSIVE FF_scan(_, _, _)
FF_scan(jobs, c, idx) ==
    IF idx >= Len(jobs) THEN None(0)
    ELSE IF c.available_nodes >= jobs[idx + 1].nodes THEN Some(idx, 0)
    ELSE FF_scan(jobs, c, idx + 1)

FF_schedule(at, jobs, c) == FF_scan(jobs, c, 0)

\* The loop of SJF::schedule from position idx on; min = -1 is None, and
\* min_time is read only when min is set.
RECURSIVE SJF_scan(_, _, _, _, _)
SJF_scan(jobs, c, idx, min, min_time) ==
    IF idx >= Len(jobs) THEN min
    ELSE LET job == jobs[idx + 1]
             jtime == job.requested_run_time
         IN IF /\ c.available_nodes >= job.nodes
               /\ \/ min = -1
                  \/ jtime < min_time
                  \/ (jtime = min_time /\ job.id < jobs[min + 1].id)
            THEN SJF_scan(jobs, c, idx + 1, idx, jtime)
            ELSE SJF_scan(jobs, c, idx + 1, min, min_time)

\* Seeded fault for C5: equal requested run times are not broken by id, the
\* first position found is kept.
SJF_schedule_no_tie_break(at, jobs, c) ==
    LET fit == {i \in 1..Len(jobs) : c.available_nodes >= jobs[i].nodes}
    IN IF fit = {} THEN None(0)
       ELSE Some((CHOOSE i \in fit :
                    \A j \in fit :
                       \/ jobs[i].requested_run_time < jobs[j].requested_run_time
                       \/ /\ jobs[i].requested_run_time = jobs[j].requested_run_time
                          /\ i <= j) - 1, 0)

SJF_schedule(at, jobs, c) ==
    LET min == SJF_scan(jobs, c, 0, -1, -1)
    IN IF min = -1 THEN None(0) ELSE Some(min, 0)

\* cluster.running_jobs.values() collected and sort_unstable_by_key'd on
\* requested_run_time: the HashMap yields its values in any order and the
\* unstable sort leaves equal keys in any order, so every arrangement that is
\* ascending in the key is a possible result.
Easy_running(c) ==
    LET ids == DOMAIN c.running_jobs
        n == Cardinality(ids)
    IN {[i \in 1..n |-> c.running_jobs[p[i]]] :
          p \in {q \in [1..n -> ids] :
                   /\ \A i, j \in 1..n : i # j => q[i] # q[j]
                   /\ \A i \in 1..n, j \in 1..n :
                        i < j => c.running_jobs[q[i]].requested_run_time
                                   <= c.running_jobs[q[j]].requested_run_time}}

\* The loop over `running` (algos.rs:90-96) from the i-th job on.
RECURSIVE Easy_window(_, _, _, _, _, _)
Easy_window(running, first, available, at, checked, i) ==
    IF i > Len(running) THEN [panic |-> FALSE, val |-> 0]
    ELSE LET job == running[i]
             avail == available + job.nodes
         IN IF avail >= first.nodes
            THEN U64Sub(job.expected_end, at, checked)
            ELSE Easy_window(running, first, avail, at, checked, i + 1)

\* Seeded fault for C6: a job as long as the window is backfilled too.
RECURSIVE Easy_backfill_inclusive(_, _, _, _)
Easy_backfill_inclusive(jobs, c, time_before_launch, idx) ==
    IF idx >= Len(jobs) THEN None(time_before_launch)
    ELSE LET job == jobs[idx + 1]
         IN IF /\ job.requested_run_time <= time_before_launch
               /\ c.available_nodes >= job.nodes
            THEN Some(idx, time_before_launch)
            ELSE Easy_backfill_inclusive(jobs, c, time_before_launch, idx + 1)

\* The loop over jobs.iter().skip(1) (algos.rs:98-102) from position idx on.
RECURSIVE Easy_backfill(_, _, _, _)
Easy_backfill(jobs, c, time_before_launch, idx) ==
    IF idx >= Len(jobs) THEN None(time_before_launch)
    ELSE LET job == jobs[idx + 1]
         IN IF /\ job.requested_run_time < time_before_launch
               /\ c.available_nodes >= job.nodes
            THEN Some(idx, time_before_launch)
            ELSE Easy_backfill(jobs, c, time_before_launch, idx + 1)

\* FCFSEasy::schedule: the set of results the call can have.
FCFSEasy_schedule(at, jobs, c, checked) ==
    IF jobs = <<>> THEN {Panicked("algos.rs:78")}
    ELSE LET first == jobs[1]
         IN IF c.available_nodes >= first.nodes THEN {Some(0, 0)}
            ELSE {LET w == Easy_window(running, first, c.available_nodes, at, checked, 1)
                  IN IF w.panic THEN Panicked("algos.rs:93")
                     ELSE Easy_backfill(jobs, c, w.val, 1) :
                  running \in Easy_running(c)}

\* self.scheduler.schedule(clock, &queue, &cluster): the dynamic dispatch.
Scheduler_schedule(s, at, jobs, c, checked) ==
    CASE s = "FCFS" -> {FCFS_schedule(at, jobs, c)}
      [] s = "FF" -> {FF_schedule(at, jobs, c)}
      [] s = "SJF" -> {SJF_schedule(at, jobs, c)}
      [] OTHER -> FCFSEasy_schedule(at, jobs, c, checked)

(***************************************************************************)
(* mod.rs: Engine                                                           *)
(***************************************************************************)
\* A trace: the job descriptors the loader reads, in file order.  The job
\* numbers of a Standard Workload Format file count the records, which are
\* sorted by submit time: the i-th descriptor has id i and the submit times
\* do not decrease.
Traces(n, descriptors) ==
    {tr \in [1..n -> descriptors] :
        \A i \in 1..(n - 1) : tr[i].submit <= tr[i + 1].submit}

\* Engine::new (mod.rs:107-148): one arrival event per descriptor that fits
\* the cluster; a descriptor asking for more nodes than the cluster has is
\* skipped.
Engine_new_events(tr, available_nodes) ==
    {<<tr[i].submit,
       Event_NewJob(Job_new(i, tr[i].nodes, tr[i].submit, tr[i].run, tr[i].req))>> :
        i \in {j \in DOMAIN tr : ~(tr[j].nodes > available_nodes)}}

NoOutcome == [kind |-> "NotCalled", index |-> 0, window |-> 0, at |-> "none"]

NoReservation == [head |-> 0, by |-> 0]

NoReport ==
    [makespan |-> 0, total_completion_time |-> 0, min_wait |-> 0, max_wait |-> 0,
     median_wait |-> 0, total_wait |-> 0, used_ressources |-> 0, idle |-> 0]

\* The state Engine::new returns and run's locals start from.
EngineInit(scheds, cmps, traces, nodes) ==
    /\ scheduler \in scheds
    /\ heap_cmp \in cmps
    /\ cluster = Cluster_new(nodes)
    /\ events \in {Engine_new_events(tr, nodes) : tr \in traces}
    /\ clock = 0
    /\ queue = <<>>
    /\ wait_times = <<>>
    /\ completion_times = <<>>
    /\ outcome = NoOutcome
    /\ reservation = NoReservation
    /\ report = NoReport
    /\ pc = "loop"
    /\ panic = "none"

\* Seeded fault for C19: the jobs behind the removed one are dropped with it.
Vec_swap_remove_lossy(v, index) == SubSeq(v, 1, index)

\* Vec::swap_remove(index): the last element takes the place of the removed one.
Vec_swap_remove(v, index) ==
    LET n == Len(v)
    IN [i \in 1..(n - 1) |-> IF i = index + 1 THEN v[n] ELSE v[i]]

Abort(at) ==
    /\ pc' = "panicked"
    /\ panic' = at

\* The reservation a call of FCFSEasy leaves behind: a backfill at clock c
\* under window w promises the head a start by c + w; the earliest promise
\* made to the same head is kept, and admitting the head clears it.
Reservation_after(r, jobs, at) ==
    IF scheduler # "FCFSEasy" THEN reservation
    ELSE IF r.index = 0 THEN NoReservation
    ELSE LET by == at + r.window
         IN IF reservation.head = jobs[1].id /\ reservation.by <= by
            THEN reservation
            ELSE [head |-> jobs[1].id, by |-> by]

\* One iteration of the drain phase that does not break (mod.rs:182-202):
\* the policy returns an index (or panics) and the job there is admitted.
Drain ==
    /\ pc = "loop"
    /\ queue # <<>>
    /\ \E checked \in BOOLEAN :
       \E r \in Scheduler_schedule(scheduler, clock, queue, cluster, checked) :
          /\ r.kind # "None"
          /\ outcome' = r
          /\ IF r.kind = "Panic"
             THEN /\ Abort(r.at)
                  /\ UNCHANGED <<cluster, events, clock, queue, wait_times,
                                 completion_times, reservation>>
             ELSE IF r.index >= Len(queue)
             THEN /\ Abort("mod.rs:188")
                  /\ UNCHANGED <<cluster, events, clock, queue, wait_times,
                                 completion_times, reservation>>
             ELSE LET job == queue[r.index + 1]
                      end_time == clock + job.run_time
                      wait == Job_wait_time_from(job, clock, checked)
                  IN IF wait.panic
                     THEN /\ Abort("job.rs:48")
                          /\ queue' = Vec_swap_remove(queue, r.index)
                          /\ UNCHANGED <<cluster, events, clock, wait_times,
                                         completion_times, reservation>>
                     ELSE /\ queue' = Vec_swap_remove(queue, r.index)
                          /\ wait_times' = Append(wait_times, wait.val)
                          /\ completion_times' = Append(completion_times, end_time)
                          /\ events' = events \cup {<<end_time, Event_JobFinished(job.id)>>}
                          /\ cluster' = Cluster_schedule_job(cluster, job, clock).cluster
                          /\ reservation' = Reservation_after(r, queue, clock)
                          /\ UNCHANGED <<clock, pc, panic>>
    /\ UNCHANGED <<scheduler, heap_cmp, report>>

\* The pop that follows the drain phase (mod.rs:205-232): the queue is empty
\* or the policy returned None; the lowest entry is popped, the clock moves to
\* its timestamp and the event is handled.
Advance ==
    /\ pc = "loop"
    /\ events # {} \/ queue # <<>>
    /\ \/ /\ queue = <<>>
          /\ outcome' = outcome
       \/ /\ queue # <<>>
          /\ \E checked \in BOOLEAN :
             \E r \in Scheduler_schedule(scheduler, clock, queue, cluster, checked) :
                /\ r.kind = "None"
                /\ outcome' = r
    /\ IF events = {}
       THEN /\ Abort("mod.rs:205")
            /\ UNCHANGED <<cluster, events, clock, queue>>
       ELSE \E e \in Heap_min(heap_cmp, events) :
              /\ events' = events \ {e}
              /\ clock' = e[1]
              /\ IF e[2].kind = "NewJob"
                 THEN /\ queue' = Append(queue, e[2].job)
                      /\ cluster' = cluster
                 ELSE /\ cluster' = Cluster_finish_job(cluster, e[2].id)
                      /\ queue' = queue
              /\ UNCHANGED <<pc, panic>>
    /\ UNCHANGED <<scheduler, heap_cmp, wait_times, completion_times,
                   reservation, report>>

\* The loop guard is false (mod.rs:176) and the assertion after the loop
\* (mod.rs:236) is evaluated.
ExitLoop ==
    /\ pc = "loop"
    /\ ~(events # {} \/ queue # <<>>)
    /\ IF queue = <<>>
       THEN pc' = "report" /\ panic' = panic
       ELSE Abort("mod.rs:236")
    /\ UNCHANGED <<scheduler, heap_cmp, cluster, events, clock, queue, wait_times,
                   completion_times, outcome, reservation, report>>

RECURSIVE Seq_sum(_)
Seq_sum(s) == IF s = <<>> THEN 0 ELSE Head(s) + Seq_sum(Tail(s))

\* wait_times.sort_unstable(): the values in ascending order.
RECURSIVE Seq_sorted(_)
Seq_sorted(s) ==
    IF s = <<>> THEN <<>>
    ELSE LET m == CHOOSE i \in 1..Len(s) : \A j \in 1..Len(s) : s[i] <= s[j]
         IN <<s[m]>> \o Seq_sorted([i \in 1..(Len(s) - 1) |-> IF i < m THEN s[i] ELSE s[i + 1]])

\* The aggregation after the loop (mod.rs:238-267).  Indexing the empty
\* wait_times panics; the averages are floating point and cannot.
Report ==
    /\ pc = "report"
    /\ \E checked \in BOOLEAN :
         LET sorted == Seq_sorted(wait_times)
             total_res == clock * cluster.total_nodes
             idle == U64Sub(total_res, cluster.used_resources, checked)
         IN IF sorted = <<>>
            THEN Abort("mod.rs:242") /\ report' = report
            ELSE IF idle.panic
            THEN Abort("mod.rs:248") /\ report' = report
            ELSE /\ report' =
                      [makespan |-> clock,
                       total_completion_time |-> Seq_sum(completion_times),
                       min_wait |-> sorted[1],
                       max_wait |-> sorted[Len(sorted)],
                       median_wait |-> sorted[(Len(sorted) \div 2) + 1],
                       total_wait |-> Seq_sum(sorted),
                       used_ressources |-> cluster.used_resources,
                       idle |-> idle.val]
                 /\ pc' = "finished"
                 /\ panic' = panic
    /\ UNCHANGED <<scheduler, heap_cmp, cluster, events, clock, queue, wait_times,
                   completion_times, outcome, reservation>>

Next == Drain \/ Advance \/ ExitLoop \/ Report

\* The descriptors of Spec: every node count the cluster can serve and every
\* time within the bounds, the actual run time free of the requested one.
Descriptors ==
    [nodes : 1..TotalNodes, submit : 0..MaxSubmit, run : 0..MaxRun, req : 0..MaxReq]

\* Engine::new followed by Engine::run, for every policy and every trace of up
\* to NumJobs jobs within the bounds.
Init ==
    EngineInit(Schedulers, HeapCmps,
               UNION {Traces(n, Descriptors) : n \in 0..NumJobs},
               TotalNodes)

Spec == Init /\ [][Next]_vars

\* Engine::run under FCFS alone, on every trace of FcfsJobs jobs; FCFS does
\* not read the requested run time, which is left 0.
InitFcfs ==
    EngineInit({"FCFS"}, HeapCmps,
               Traces(FcfsJobs, {d \in Descriptors : d.req = 0}), TotalNodes)

SpecFcfs == InitFcfs /\ [][Next]_vars

\* Engine::run under FCFSEasy on traces of BackfillJobs jobs, each one node
\* or the whole cluster wide, submitted at 0 or at BackfillSubmit, and running
\* exactly as long as requested.
BackfillDescriptors ==
    {d \in [nodes : {1, BackfillNodes}, submit : {0, BackfillSubmit},
            run : 0..BackfillRun, req : 0..BackfillRun] : d.run = d.req}

InitBackfill ==
    EngineInit({"FCFSEasy"}, HeapCmps, Traces(BackfillJobs, BackfillDescriptors),
               BackfillNodes)

SpecBackfill == InitBackfill /\ [][Next]_vars

(***************************************************************************)
(* The policies and Job::set_scheduled on their own: one call on inputs    *)
(* drawn from bounded sets.                                                *)
(***************************************************************************)
\* The pending queues of up to MaxQueue jobs with distinct ids in any order.
Queues(reqs) ==
    UNION {{[i \in 1..n |-> Job_new(ids[i], d[i].nodes, 0, 0, d[i].req)] :
              ids \in {p \in [1..n -> 1..n] : \A i, j \in 1..n : i # j => p[i] # p[j]},
              d \in [1..n -> [nodes : 1..TotalNodes, req : reqs]]} :
           n \in 1..MaxQueue}

RECURSIVE Seq_nodes(_)
Seq_nodes(r) == IF r = <<>> THEN 0 ELSE Head(r).nodes + Seq_nodes(Tail(r))

\* The clusters of TotalNodes nodes whose running jobs were admitted at one
\* of `starts`: what Cluster::new and a series of schedule_job calls build.
Clusters(reqs, starts) ==
    {[total_nodes |-> TotalNodes,
      available_nodes |-> TotalNodes - Seq_nodes(r),
      used_resources |-> 0,
      running_jobs |->
          [id \in {MaxQueue + i : i \in 1..Len(r)} |->
              Job_set_scheduled(
                  Job_new(id, r[id - MaxQueue].nodes, r[id - MaxQueue].start,
                          r[id - MaxQueue].req, r[id - MaxQueue].req),
                  r[id - MaxQueue].start)]] :
        r \in {x \in UNION {[1..k -> [nodes : 1..TotalNodes, req : reqs, start : starts]] :
                             k \in 0..TotalNodes} :
                 Seq_nodes(x) <= TotalNodes}}

CallInit(at_pc, scheds, queues, clusters, clocks) ==
    /\ scheduler \in scheds
    /\ heap_cmp = "Ord"
    /\ cluster \in clusters
    /\ events = {}
    /\ clock \in clocks
    /\ queue \in queues
    /\ wait_times = <<>>
    /\ completion_times = <<>>
    /\ outcome = NoOutcome
    /\ reservation = NoReservation
    /\ report = NoReport
    /\ pc = at_pc
    /\ panic = "none"

\* One call of self.scheduler.schedule(clock, &queue, &cluster).
PolicyCall ==
    /\ pc = "schedule"
    /\ \E checked \in BOOLEAN :
         outcome' \in Scheduler_schedule(scheduler, clock, queue, cluster, checked)
    /\ pc' = "returned"
    /\ UNCHANGED <<scheduler, heap_cmp, cluster, events, clock, queue, wait_times,
                   completion_times, reservation, report, panic>>

PolicyNext == PolicyCall

\* FCFS and FF on every queue and every free-node count.
InitHeadOfLine ==
    CallInit("schedule", {"FCFS", "FF"}, Queues({0}), Clusters({0}, {0}), {0})

SpecHeadOfLine == InitHeadOfLine /\ [][PolicyNext]_vars

\* SJF on every queue, requested run times and free-node count.
InitSjf ==
    CallInit("schedule", {"SJF"}, Queues(0..MaxReq), Clusters({0}, {0}), {0})

SpecSjf == InitSjf /\ [][PolicyNext]_vars

\* FCFSEasy on every queue and every cluster whose jobs started by MaxClock.
InitBackfillCall ==
    /\ CallInit("schedule", {"FCFSEasy"}, Queues(0..MaxReq),
                Clusters(0..MaxReq, 0..MaxClock), 0..MaxClock)
    /\ \A id \in DOMAIN cluster.running_jobs :
          cluster.running_jobs[id].schedule_time <= clock
    /\ \A i \in 1..Len(queue) : queue[i].id = i

SpecBackfillCall == InitBackfillCall /\ [][PolicyNext]_vars

\* One call of job.set_scheduled(clock) on the job at queue position 0.
JobCall ==
    /\ pc = "set_scheduled"
    /\ queue' = <<Job_set_scheduled(queue[1], clock)>>
    /\ pc' = "returned"
    /\ UNCHANGED <<scheduler, heap_cmp, cluster, events, clock, wait_times,
                   completion_times, outcome, reservation, report, panic>>

JobNext == JobCall

\* Job::set_scheduled on every job, fresh from Job::new or already scheduled.
InitJob ==
    CallInit("set_scheduled", {"FCFS"},
             UNION {{<<j>>, <<Job_set_scheduled(j, at)>>} :
                      j \in {Job_new(1, d.nodes, d.submit, d.run, d.req) : d \in Descriptors},
                      at \in 0..MaxSubmit},
             {Cluster_new(TotalNodes)}, 0..MaxClock)

SpecJob == InitJob /\ [][JobNext]_vars

\* The worked example: a 4-node cluster and the jobs (id, nodes, submit, run,
\* requested) = (1, 4, 0, 10, 10) and (2, 2, 1, 5, 5).
ExampleTrace ==
    <<[nodes |-> 4, submit |-> 0, run |-> 10, req |-> 10],
      [nodes |-> 2, submit |-> 1, run |-> 5, req |-> 5]>>

\* Engine::new with a task_limit (mod.rs:143-147): loading stops once the
\* timeline holds `limit` arrivals; the example is loaded whole or cut after
\* its first job.
InitExample ==
    EngineInit(Schedulers, HeapCmps,
               {SubSeq(ExampleTrace, 1, limit) : limit \in 1..Len(ExampleTrace)}, 4)

SpecExample == InitExample /\ [][Next]_vars

\* One call of self.cluster.finish_job(id), for the id of the completion
\* event held in the timeline.
ClusterCall ==
    /\ pc = "finish_job"
    /\ \E e \in events : cluster' = Cluster_finish_job(cluster, e[2].id)
    /\ pc' = "returned"
    /\ UNCHANGED <<scheduler, heap_cmp, events, clock, queue, wait_times,
                   completion_times, outcome, reservation, report, panic>>

ClusterNext == ClusterCall

\* Cluster::finish_job on every cluster, whatever it has accumulated in
\* used_resources, and every id, running or not.
InitCluster ==
    /\ scheduler = "FCFS"
    /\ heap_cmp = "Ord"
    /\ cluster \in {[c EXCEPT !.used_resources = used] :
                      c \in Clusters(0..MaxReq, {0}), used \in 0..MaxRun}
    /\ events \in {{<<0, Event_JobFinished(id)>>} : id \in 1..(MaxQueue + TotalNodes)}
    /\ clock = 0
    /\ queue = <<>>
    /\ wait_times = <<>>
    /\ completion_times = <<>>
    /\ outcome = NoOutcome
    /\ reservation = NoReservation
    /\ report = NoReport
    /\ pc = "finish_job"
    /\ panic = "none"

SpecCluster == InitCluster /\ [][ClusterNext]_vars

(***************************************************************************)
(* The claims.                                                             *)
(***************************************************************************)
RECURSIVE Nodes_sum(_, _)
Nodes_sum(m, ids) ==
    IF ids = {} THEN 0
    ELSE LET i == CHOOSE x \in ids : TRUE
         IN m[i].nodes + Nodes_sum(m, ids \ {i})

\* C1. Capacity invariant: in every state of Engine::run, under each of the
\* four policies, available_nodes plus the nodes of the running jobs is
\* total_nodes, so available_nodes stays within 0..total_nodes.
C1_Capacity ==
    /\ cluster.available_nodes
         + Nodes_sum(cluster.running_jobs, DOMAIN cluster.running_jobs)
       = cluster.total_nodes
    /\ 0 <= cluster.available_nodes
    /\ cluster.available_nodes <= cluster.total_nodes

\* C1's case: a job has finished and been released, and two jobs run side by
\* side on a full cluster.
C1_Witness ==
    /\ pc = "loop"
    /\ cluster.used_resources > 0
    /\ Cardinality(DOMAIN cluster.running_jobs) = 2
    /\ cluster.available_nodes = 0

\* The order C2 states: timestamp ascending, at equal timestamps a completion
\* before an arrival, within a kind the job id ascending.
Claimed_lt(x, y) ==
    \/ x[1] < y[1]
    \/ /\ x[1] = y[1]
       /\ \/ x[2].kind = "JobFinished" /\ y[2].kind = "NewJob"
          \/ x[2].kind = y[2].kind /\ x[2].id < y[2].id

\* C2. Event extraction order: every event the engine pops is the minimum of
\* the events then in the timeline under the order of Claimed_lt, so a
\* completion is popped before an arrival of the same timestamp.
C2_PopsClaimedMinimum ==
    [][\A e \in events \ events' : \A f \in events : ~Claimed_lt(f, e)]_vars

\* The order in which two jobs arrive: arrivals are popped by submit time and,
\* at equal submit times, by id, under either comparison of the heap.
Arrived_before(a, b) ==
    \/ a.submit_time < b.submit_time
    \/ a.submit_time = b.submit_time /\ a.id < b.id

\* C3. Under FCFS, at every scheduling call of the engine (the queue is not
\* empty), position 0 holds the job that arrived earliest among the pending
\* jobs.
C3_FcfsHeadArrivedFirst ==
    (scheduler = "FCFS" /\ pc = "loop" /\ queue # <<>>)
        => \A i \in 2..Len(queue) : Arrived_before(queue[1], queue[i])

Fits(job) == job.nodes <= cluster.available_nodes

\* C4. Head-of-line blocking: FCFS::schedule returns position 0 if the job
\* there fits and nothing otherwise, whatever fits behind it; FF::schedule
\* returns the lowest position whose job fits, and nothing only if none fits.
C4_HeadOfLine ==
    (pc = "returned" /\ scheduler \in {"FCFS", "FF"}) =>
        LET fit == {i \in 1..Len(queue) : Fits(queue[i])}
        IN /\ scheduler = "FCFS" =>
                 IF 1 \in fit THEN outcome.kind = "Some" /\ outcome.index = 0
                 ELSE outcome.kind = "None"
           /\ scheduler = "FF" =>
                 IF fit = {} THEN outcome.kind = "None"
                 ELSE /\ outcome.kind = "Some"
                      /\ outcome.index + 1 \in fit
                      /\ \A j \in fit : outcome.index + 1 <= j

\* C4's case: FCFS has returned nothing although a job behind the blocked
\* head fits.
C4_Witness ==
    /\ pc = "returned"
    /\ scheduler = "FCFS"
    /\ ~Fits(queue[1])
    /\ \E i \in 2..Len(queue) : Fits(queue[i])
    /\ outcome.kind = "None"

\* C5. SJF selection: SJF::schedule returns the position of the fitting job
\* with the smallest requested run time, the smallest id among those of equal
\* requested run time, and returns nothing exactly when no pending job fits.
C5_SjfSelection ==
    (pc = "returned" /\ scheduler = "SJF") =>
        LET fit == {i \in 1..Len(queue) : Fits(queue[i])}
        IN IF fit = {} THEN outcome.kind = "None"
           ELSE /\ outcome.kind = "Some"
                /\ outcome.index + 1 \in fit
                /\ \A j \in fit :
                      LET chosen == queue[outcome.index + 1]
                      IN \/ chosen.requested_run_time < queue[j].requested_run_time
                         \/ /\ chosen.requested_run_time = queue[j].requested_run_time
                            /\ chosen.id <= queue[j].id

\* C5's case: the job returned has the same requested run time as a fitting
\* job at an earlier position and a smaller id.
C5_Witness ==
    /\ pc = "returned"
    /\ scheduler = "SJF"
    /\ outcome.kind = "Some"
    /\ \E j \in 1..outcome.index :
          /\ Fits(queue[j])
          /\ queue[j].requested_run_time = queue[outcome.index + 1].requested_run_time
          /\ queue[j].id > queue[outcome.index + 1].id

\* The reservation windows C6 describes: the running jobs in an order
\* ascending in requested run time, their nodes added to available_nodes up
\* to the first job with which the head fits, that job's expected_end minus
\* the clock as the u64 subtraction yields it; 0 without running jobs.
Claimed_windows ==
    IF DOMAIN cluster.running_jobs = {} THEN {0}
    ELSE {w \in {U64Sub(s[k].expected_end, clock, FALSE).val :
                   s \in Easy_running(cluster), k \in 1..Cardinality(DOMAIN cluster.running_jobs)} :
            \E s \in Easy_running(cluster) : \E k \in 1..Len(s) :
               /\ w = U64Sub(s[k].expected_end, clock, FALSE).val
               /\ cluster.available_nodes + Seq_nodes(SubSeq(s, 1, k)) >= queue[1].nodes
               /\ cluster.available_nodes + Seq_nodes(SubSeq(s, 1, k - 1)) < queue[1].nodes}

C7_HeadStartsWithinWindow ==
    (scheduler = "FCFSEasy" /\ reservation.head # 0) => clock <= reservation.by

\* C8. Engine::run leaves its main loop only by the loop guard, with the
\* timeline and the pending queue both empty: nothing panics inside the loop.
C8_LoopExitsClean ==
    /\ pc = "panicked" => panic \in {"mod.rs:242", "mod.rs:248"}
    /\ pc \in {"report", "finished"} => events = {} /\ queue = <<>>

\* C9. Monotone clock: the timestamp of every event the engine pops is at
\* least the clock at the moment of the pop.
C9_ClockMonotone ==
    [][\A e \in events \ events' : e[1] >= clock]_vars

\* C9's case: a completion pushed during the run has been popped after the
\* clock left 0, and another completion is still in the timeline.
C9_Witness ==
    /\ pc = "loop"
    /\ clock > 0
    /\ cluster.used_resources > 0
    /\ \E e \in events : e[2].kind = "JobFinished"

\* C10. Job::set_scheduled on a job whose scheduled flag is already true
\* fails and leaves schedule_time and expected_end as they were.
C10_RescheduleFails ==
    [][(pc = "set_scheduled" /\ queue[1].scheduled)
          => (pc' = "panicked" /\ queue' = queue)]_vars

\* C11. Determinism: when every event still in the timeline lies after the
\* clock, a job the policy can return now starts now in every execution, so
\* no order of the running jobs makes the same call return nothing.
C11_OneDecision ==
    (pc = "loop" /\ queue # <<>> /\ \A e \in events : e[1] > clock) =>
        \A checked \in BOOLEAN :
           \A r1, r2 \in Scheduler_schedule(scheduler, clock, queue, cluster, checked) :
              ~(r1.kind = "Some" /\ r2.kind = "None")

\* C12. Worked example: under each of the four policies job 1 starts at 0 with
\* wait 0, job 2 starts at 10 with wait 9, and with both jobs loaded the
\* makespan is 15.
C12_WorkedExample ==
    /\ pc # "panicked"
    /\ \A id \in DOMAIN cluster.running_jobs :
          cluster.running_jobs[id].schedule_time = IF id = 1 THEN 0 ELSE 10
    /\ wait_times \in {<<>>, <<0>>, <<0, 9>>}
    /\ completion_times \in {<<>>, <<10>>, <<10, 15>>}
    /\ (pc = "finished" /\ Len(wait_times) = 2) => report.makespan = 15

\* C12's case: the run on both jobs has finished under EASY-backfill.
C12_Witness ==
    /\ pc = "finished"
    /\ scheduler = "FCFSEasy"
    /\ wait_times = <<0, 9>>
    /\ report.makespan = 15

RECURSIVE Seq_max(_)
Seq_max(s) ==
    IF s = <<>> THEN 0
    ELSE LET m == Seq_max(Tail(s)) IN IF Head(s) > m THEN Head(s) ELSE m

\* C13. Makespan: the makespan reported, the final clock, is the largest
\* start time + actual run time over the admitted jobs.
C13_Makespan ==
    pc = "finished" => report.makespan = Seq_max(completion_times)

\* C13's case: a run has finished in which the job admitted last was not the
\* last to finish.
C13_Witness ==
    /\ pc = "finished"
    /\ Len(completion_times) >= 2
    /\ completion_times[Len(completion_times)] < report.makespan

\* C14. Release frame: Cluster::finish_job of an id that is not running
\* returns normally and changes nothing; of a running id it removes that job
\* alone, adds its nodes to available_nodes and its nodes times its actual run
\* time to used_resources.
C14_ReleaseFrame ==
    [][pc = "finish_job" =>
         \A e \in events :
            LET id == e[2].id
            IN /\ pc' = "returned"
               /\ IF id \notin DOMAIN cluster.running_jobs
                  THEN cluster' = cluster
                  ELSE LET job == cluster.running_jobs[id]
                       IN /\ DOMAIN cluster'.running_jobs
                               = (DOMAIN cluster.running_jobs) \ {id}
                          /\ \A k \in DOMAIN cluster'.running_jobs :
                                cluster'.running_jobs[k] = cluster.running_jobs[k]
                          /\ cluster'.available_nodes
                               = cluster.available_nodes + job.nodes
                          /\ cluster'.used_resources
                               = cluster.used_resources + job.nodes * job.run_time
                          /\ cluster'.total_nodes = cluster.total_nodes]_vars

\* C14's case: finish_job has returned from an id that no job ever ran
\* under, on a cluster with jobs running and resources already used.
C14_Witness ==
    /\ pc = "returned"
    /\ \E e \in events : e[2].kind = "JobFinished" /\ e[2].id <= MaxQueue
    /\ DOMAIN cluster.running_jobs # {}
    /\ cluster.used_resources > 0

\* C15. Empty-result guard: a run that leaves the loop with no job admitted,
\* or with a makespan of 0, still finishes with a report.
C15_EmptyResultReported ==
    [][(pc = "report" /\ (wait_times = <<>> \/ clock = 0)) => pc' = "finished"]_vars

\* C16. Admission refusal is unreachable: every index a policy can return in
\* Engine::run is a position of the pending queue whose job
\* Cluster::schedule_job accepts, and every completion event in the timeline
\* belongs to a job in the running set.
C16_AdmissionAccepted ==
    /\ panic # "mod.rs:188"
    /\ \A e \in events :
          e[2].kind = "JobFinished" => e[2].id \in DOMAIN cluster.running_jobs
    /\ (pc = "loop" /\ queue # <<>>) =>
          \A checked \in BOOLEAN :
             \A r \in Scheduler_schedule(scheduler, clock, queue, cluster, checked) :
                r.kind = "Some" =>
                   /\ r.index < Len(queue)
                   /\ Cluster_schedule_job(cluster, queue[r.index + 1], clock).ok

\* C16's case: with a job running, the policy is about to return a position
\* behind a head that does not fit.
C16_Witness ==
    /\ pc = "loop"
    /\ Len(queue) >= 2
    /\ ~Fits(queue[1])
    /\ DOMAIN cluster.running_jobs # {}
    /\ \E r \in Scheduler_schedule(scheduler, clock, queue, cluster, TRUE) :
          r.kind = "Some" /\ r.index > 0

\* C17. No job starts before it is submitted: at every admission the clock is
\* at least the job's submit_time, the subtraction does not underflow, and the
\* wait recorded is the job's schedule_time - submit_time.
C17_WaitFromSubmit ==
    [][/\ panic' # "job.rs:48"
       /\ Len(wait_times') > Len(wait_times) =>
             \E id \in (DOMAIN cluster'.running_jobs) \ (DOMAIN cluster.running_jobs) :
                LET job == cluster'.running_jobs[id]
                IN /\ job.submit_time <= clock
                   /\ job.schedule_time = clock
                   /\ wait_times'[Len(wait_times')]
                        = job.schedule_time - job.submit_time]_vars

\* C17's case: a job admitted after its submit time is running and its wait,
\* the latest recorded, is positive.
C17_Witness ==
    /\ pc = "loop"
    /\ wait_times # <<>>
    /\ wait_times[Len(wait_times)] > 0
    /\ \E id \in DOMAIN cluster.running_jobs :
          LET job == cluster.running_jobs[id]
          IN /\ job.schedule_time = clock
             /\ job.schedule_time - job.submit_time = wait_times[Len(wait_times)]

\* C18. Reservation-window arithmetic never underflows: whenever
\* FCFSEasy::schedule is called in Engine::run with a head that does not fit,
\* the running job whose expected_end it subtracts the clock from has
\* expected_end >= clock, whatever order the running jobs come in.
C18_WindowNoUnderflow ==
    /\ panic # "algos.rs:93"
    /\ (scheduler = "FCFSEasy" /\ pc = "loop" /\ queue # <<>> /\ ~Fits(queue[1])) =>
          \A running \in Easy_running(cluster) :
             ~Easy_window(running, queue[1], cluster.available_nodes, clock, TRUE, 1).panic

\* The jobs of the trace still ahead of admission: the arrivals in the
\* timeline and the pending queue.
Unserved(timeline, pending) ==
    Cardinality({e \in timeline : e[2].kind = "NewJob"}) + Len(pending)

\* C19. Every job is served exactly once: no step of Engine::run loses or
\* duplicates a job (the recorded waits plus the jobs not yet admitted stay as
\* many as the jobs loaded), the completions in the timeline are those of the
\* running jobs, one each, and once the loop is left every loaded job has a
\* recorded wait, the running set is empty and all nodes are available.
C19_ServedOnce ==
    [][/\ Len(wait_times') + Unserved(events', queue')
            = Len(wait_times) + Unserved(events, queue)
       /\ Len(completion_times') = Len(wait_times')
       /\ {e[2].id : e \in {f \in events' : f[2].kind = "JobFinished"}}
            = DOMAIN cluster'.running_jobs
       /\ Cardinality({f \in events' : f[2].kind = "JobFinished"})
            = Cardinality(DOMAIN cluster'.running_jobs)
       /\ pc' \in {"report", "finished"} =>
             /\ Unserved(events', queue') = 0
             /\ DOMAIN cluster'.running_jobs = {}
             /\ cluster'.available_nodes = cluster'.total_nodes]_vars

\* C19's case: a run of several jobs, some of which ran side by side, has
\* finished.
C19_Witness ==
    /\ pc = "finished"
    /\ Len(wait_times) >= 3
    /\ cluster.used_resources > 0
    /\ report.makespan < report.total_completion_time

\* C20. Utilization accounting is bounded: used_resources grows by nodes x
\* actual run time with each job released and by nothing else, once the loop
\* is left it is at most makespan x total_nodes, and the subtraction that
\* yields idle does not underflow.
C20_UtilizationBounded ==
    [][/\ LET gone == (DOMAIN cluster.running_jobs) \ (DOMAIN cluster'.running_jobs)
          IN IF gone = {} THEN cluster'.used_resources = cluster.used_resources
             ELSE \E id \in gone :
                     /\ gone = {id}
                     /\ cluster'.used_resources
                          = cluster.used_resources
                              + cluster.running_jobs[id].nodes
                                  * cluster.running_jobs[id].run_time
       /\ panic' # "mod.rs:248"
       /\ pc' \in {"report", "finished"} =>
             cluster'.used_resources <= clock' * cluster'.total_nodes
       /\ pc' = "finished" =>
             /\ report'.used_ressources = cluster'.used_resources
             /\ report'.idle + report'.used_ressources
                  = report'.makespan * cluster'.total_nodes]_vars

\* C20's case: a run has finished on a cluster that was partly busy and
\* partly idle.
C20_Witness ==
    /\ pc = "finished"
    /\ report.used_ressources > 0
    /\ report.idle > 0
    /\ Len(wait_times) >= 2

====
